---- MODULE Spec2Model ----
(***************************************************************************)
(* Model of the Anomaly Events backend (src/main.py, src/schemas.py):      *)
(* contact registration and phone verification, the SMS gateway and its    *)
(* delivery-status webhook, and the RSVP upsert.                           *)
(*                                                                         *)
(* Conventions                                                             *)
(*   - a Python Optional value is a sequence of length <= 1: None is <<>>  *)
(*     and a present value v is <<v>>;                                     *)
(*   - a phone number is a sequence of one-character strings;              *)
(*   - an ObjectId is a record [coll, k], the k-th identifier given out    *)
(*     for collection coll, and the text of an identifier is a record      *)
(*     [oid, form]: bson prints an ObjectId in lower-case hex and parses   *)
(*     both lower- and upper-case hex;                                     *)
(*   - a collection is the sequence of its documents in insertion order,   *)
(*     find_one returns the first match;                                   *)
(*   - created_at / updated_at timestamps and the plain stored fields      *)
(*     name, email, headshot_url, city, referred_by are left out.          *)
(***************************************************************************)
EXTENDS Integers, Sequences, FiniteSets, TLC

\* ------------------------------------------------------------------ bounds
MaxSms == 2        \* rows of the smsmessage collection
MaxEvents == 1     \* documents of the event collection
MaxRsvps == 2      \* documents of the rsvp collection
MaxLogs == 2       \* entries of all the rows' logs lists together
MaxInflight == 2   \* requests being handled at the same time
MaxPhoneLen == 12  \* characters of a raw phone given to the normalizer alone
MaxOther == 2      \* characters of such a raw phone that are not digits

\* --------------------------------------------------------- program constants
CodeLo == 100000
CodeHi == 999999
UsDigits == 10

None == <<>>
Some(v) == <<v>>

\* ------------------------------------------------------------------ strings
DigitChars == {"0", "1", "2", "3", "4", "5", "6", "7", "8", "9"}
SpaceChars == {" "}
DigitOf == <<"0", "1", "2", "3", "4", "5", "6", "7", "8", "9">>

\* str(n) for a natural number n
RECURSIVE str(_)
str(n) == IF n < 10 THEN DigitOf[n + 1] ELSE str(n \div 10) \o DigitOf[(n % 10) + 1]

\* "".join(ch for ch in phone if ch.isdigit())
RECURSIVE digits_of(_)
digits_of(s) ==
    IF s = <<>> THEN <<>>
    ELSE IF Head(s) \in DigitChars THEN <<Head(s)>> \o digits_of(Tail(s))
    ELSE digits_of(Tail(s))

\* phone.strip(), as far as the first character goes
RECURSIVE lstrip(_)
lstrip(s) ==
    IF s = <<>> THEN <<>>
    ELSE IF Head(s) \in SpaceChars THEN lstrip(Tail(s))
    ELSE s

startswith_plus(s) == s # <<>> /\ Head(s) = "+"

\* a normalizer that tests the raw text, untrimmed, for its leading "+"
_normalize_phone_unstripped(phone) ==
    LET digits == digits_of(phone)
    IN  IF startswith_plus(phone) THEN <<"+">> \o digits
        ELSE IF Len(digits) = UsDigits THEN <<"+", "1">> \o digits
        ELSE IF ~startswith_plus(digits) THEN <<"+">> \o digits
        ELSE digits

_normalize_phone(phone) ==
    LET digits == digits_of(phone)
    IN  IF startswith_plus(lstrip(phone)) THEN <<"+">> \o digits
        ELSE IF Len(digits) = UsDigits THEN <<"+", "1">> \o digits
        ELSE IF ~startswith_plus(digits) THEN <<"+">> \o digits
        ELSE digits

\* ------------------------------------------------------------------ inputs
\* "555-000-1111", " +15550001111" and "42"
RawPhones ==
    { <<"5", "5", "5", "-", "0", "0", "0", "-", "1", "1", "1", "1">>,
      <<" ", "+", "1", "5", "5", "5", "0", "0", "0", "1", "1", "1", "1">>,
      <<"4", "2">> }

Phones == { _normalize_phone(r) : r \in RawPhones }

\* the values of str(random.randint(100000, 999999)) the model draws
Codes == { str(n) : n \in {CodeLo, CodeHi} }

\* the codes a caller may submit: any string
CodeInputs == Codes \cup {"None"}

\* str.upper() and str.lower(), character by character
UpperLetters == <<"A", "B", "C", "D", "E", "F", "G", "H", "I", "J", "K", "L", "M",
                  "N", "O", "P", "Q", "R", "S", "T", "U", "V", "W", "X", "Y", "Z">>
LowerLetters == <<"a", "b", "c", "d", "e", "f", "g", "h", "i", "j", "k", "l", "m",
                  "n", "o", "p", "q", "r", "s", "t", "u", "v", "w", "x", "y", "z">>

upper_ch(c) ==
    IF \E i \in 1..26 : LowerLetters[i] = c
    THEN UpperLetters[CHOOSE i \in 1..26 : LowerLetters[i] = c]
    ELSE c

lower_ch(c) ==
    IF \E i \in 1..26 : UpperLetters[i] = c
    THEN LowerLetters[CHOOSE i \in 1..26 : UpperLetters[i] = c]
    ELSE c

upper(s) == [i \in 1..Len(s) |-> upper_ch(s[i])]
lower(s) == [i \in 1..Len(s) |-> lower_ch(s[i])]

RECURSIVE rstrip(_)
rstrip(s) ==
    IF s = <<>> THEN <<>>
    ELSE IF s[Len(s)] \in SpaceChars THEN rstrip(SubSeq(s, 1, Len(s) - 1))
    ELSE s

strip(s) == rstrip(lstrip(s))

\* x or default, for an Optional string x
or_default(x, d) == IF x = None \/ x[1] = <<>> THEN d ELSE x[1]

LocalStates ==
    { <<"C", "A">>, <<"N", "Y">>, <<"N", "V">>, <<"W", "A">>, <<"O", "R">>,
      <<"T", "X">>, <<"F", "L">> }

segment_of(state) ==
    IF upper(strip(or_default(state, <<>>))) \in LocalStates THEN "local"
    ELSE "out_of_state"

Anomaly == <<"a", "n", "o", "m", "a", "l", "y">>
Arcane == <<"a", "r", "c", "a", "n", "e">>

\* schemas.Contact.brand_queue: Literal["anomaly", "arcane"]
BrandQueues == {Anomaly, Arcane}

\* the state / brand_queue parts of the registration payloads the model sends:
\* both absent; " ca" and "Arcane"; "ZZ" and "vip"
RegExtras ==
    { [state |-> None, brand_queue |-> None],
      [state |-> Some(<<" ", "c", "a">>), brand_queue |-> Some(<<"A", "r", "c", "a", "n", "e">>)],
      [state |-> Some(<<"Z", "Z">>), brand_queue |-> Some(<<"v", "i", "p">>)] }

RegistrationRequest ==
    { [phone |-> p, state |-> x.state, brand_queue |-> x.brand_queue] :
        p \in RawPhones, x \in RegExtras }

VerifySendRequest == { [phone |-> p] : p \in RawPhones }

VerifyConfirmRequest == { [phone |-> p, code |-> c] : p \in RawPhones, c \in CodeInputs }

\* --------------------------------------------------------------------- state
VARIABLES
    twilio_client,       \* main.py:18-24: TRUE when a Twilio client was built
    TWILIO_FROM_NUMBER,  \* main.py:16: TRUE when the sender number is set
    contacts,            \* db["contact"]
    events,              \* db["event"]
    rsvps,               \* db["rsvp"]
    smslog,              \* db["smsmessage"]
    provider_seq,        \* messages the provider has accepted (it numbers its sids)
    last,                \* the request handled last and the response to it
    issued,              \* history: phone -> the code written last for it
    outstanding,         \* history: phone -> no confirmation succeeded since that write
    firstRegId,          \* history: phone -> the id the first register returned
    rsvpIds,             \* history: per pair and id returned by an upsert, the status
                         \* of the latest such upsert
    received,            \* history: sid -> the statuses of the callbacks received for
                         \* it, in arrival order
    inflight             \* per worker, the locals of the request it is handling

vars == <<twilio_client, TWILIO_FROM_NUMBER, contacts, events, rsvps, smslog,
          provider_seq, last, issued, outstanding, firstRegId, rsvpIds, received,
          inflight>>

\* what no request handled in one piece changes
config == <<twilio_client, TWILIO_FROM_NUMBER, inflight>>
history == <<issued, outstanding, firstRegId, rsvpIds, received>>
stores == <<contacts, events, rsvps, smslog, provider_seq>>

\* ---------------------------------------------------------------- the store
\* the ObjectId the next document inserted into coll gets
new_oid(name, coll) == [coll |-> name, k |-> Len(coll) + 1]

\* str(ObjectId)
oid_str(oid) == [oid |-> oid, form |-> "lower"]

\* ObjectId(text): None when the text is not 24 hex characters
ObjectId(text) == IF text.form = "bad" THEN None ELSE Some(text.oid)

\* the documents of a collection that a filter matches, by position
matching(coll, filter) ==
    {i \in 1..Len(coll) :
        \A f \in DOMAIN filter : coll[i][f] = filter[f]}

\* collection.find_one(filter): the index of the first match, 0 for None
find_one(coll, filter) ==
    LET hits == matching(coll, filter)
    IN  IF hits = {} THEN 0
        ELSE CHOOSE i \in hits : \A j \in hits : i <= j

\* a lookup on a field the documents do not have: it never matches
find_contact_by_number(coll, phone) == 0

find_contact_by_phone(coll, phone) ==
    find_one(coll, [phone |-> phone])

find_by_id(coll, oid) ==
    find_one(coll, [_id |-> oid])

\* ------------------------------------------------------------- SMS gateway
sms_body(code) == "Anomaly verification code: " \o code

provider_sid(n) == "SM" \o str(n)

\* what twilio_client.messages.create may do; it is not called when the
\* gateway is not configured
ProviderOutcomes ==
    IF twilio_client /\ TWILIO_FROM_NUMBER THEN {"ok", "raise"} ELSE {"not called"}

sms_row(to, body, purpose, status, sid, err) ==
    [_id |-> new_oid("smsmessage", smslog), to |-> Some(to), body |-> Some(body),
     purpose |-> Some(purpose), status |-> Some(status), provider_message_sid |-> sid,
     error_message |-> err, logs |-> <<>>]

\* a gateway without the except clause: the provider's exception leaves it
\* and no row is logged
_send_sms_uncaught(to, body, purpose, outcome) ==
    LET to_norm == _normalize_phone(to)
        sid == provider_sid(provider_seq + 1)
    IN  IF twilio_client /\ TWILIO_FROM_NUMBER
        THEN IF outcome = "ok"
             THEN [rows |-> <<sms_row(to_norm, body, purpose, "sent", Some(sid), None)>>,
                   sid |-> Some(sid), accepted |-> 1, raised |-> FALSE]
             ELSE [rows |-> <<>>, sid |-> None, accepted |-> 0, raised |-> TRUE]
        ELSE [rows |-> <<sms_row(to_norm, body, purpose, "queued", None, None)>>,
              sid |-> None, accepted |-> 0, raised |-> FALSE]

\* a gateway whose except clause logs nothing
_send_sms_silent(to, body, purpose, outcome) ==
    LET to_norm == _normalize_phone(to)
        sid == provider_sid(provider_seq + 1)
    IN  IF twilio_client /\ TWILIO_FROM_NUMBER
        THEN IF outcome = "ok"
             THEN [rows |-> <<sms_row(to_norm, body, purpose, "sent", Some(sid), None)>>,
                   sid |-> Some(sid), accepted |-> 1, raised |-> FALSE]
             ELSE [rows |-> <<>>, sid |-> None, accepted |-> 0, raised |-> FALSE]
        ELSE [rows |-> <<sms_row(to_norm, body, purpose, "queued", None, None)>>,
              sid |-> None, accepted |-> 0, raised |-> FALSE]

\* One run of _send_sms: the rows it logs, what it returns, how many messages
\* the provider accepted, and whether an exception leaves it (the except
\* clause catches every exception of the try block, so none does).
_send_sms(to, body, purpose, outcome) ==
    LET to_norm == _normalize_phone(to)
        sid == provider_sid(provider_seq + 1)
    IN  IF twilio_client /\ TWILIO_FROM_NUMBER
        THEN IF outcome = "ok"
             THEN [rows |-> <<sms_row(to_norm, body, purpose, "sent", Some(sid), None)>>,
                   sid |-> Some(sid), accepted |-> 1, raised |-> FALSE]
             ELSE [rows |-> <<sms_row(to_norm, body, purpose, "failed", None,
                                      Some("provider error"))>>,
                   sid |-> None, accepted |-> 0, raised |-> FALSE]
        ELSE [rows |-> <<sms_row(to_norm, body, purpose, "queued", None, None)>>,
              sid |-> None, accepted |-> 0, raised |-> FALSE]

\* ---------------------------------------------------------------- handlers
Workers == 1..MaxInflight

Idle == [pc |-> "idle"]

Init ==
    /\ twilio_client \in BOOLEAN
    /\ TWILIO_FROM_NUMBER \in BOOLEAN
    /\ contacts = <<>>
    /\ events = <<>>
    /\ rsvps = <<>>
    /\ smslog = <<>>
    /\ provider_seq = 0
    /\ last = [op |-> "none", status |-> 0]
    /\ issued = [p \in Phones |-> None]
    /\ outstanding = [p \in Phones |-> FALSE]
    /\ firstRegId = [p \in Phones |-> None]
    /\ rsvpIds = {}
    /\ received = [sid \in {} |-> <<>>]
    /\ inflight = [w \in Workers |-> Idle]

\* a resend that also starts the verification over
set_code_unverify(coll, i, code) ==
    [coll EXCEPT ![i].verification_code = Some(code), ![i].phone_verified = FALSE]

\* a resend that keeps a code that is still outstanding
set_code_if_absent(coll, i, code) ==
    IF coll[i].verification_code = None
    THEN [coll EXCEPT ![i].verification_code = Some(code)]
    ELSE coll

\* a resend that stores the document anew, with the defaults of schemas.Contact
\* for the fields it does not know
set_code_replace(coll, i, code) ==
    [coll EXCEPT ![i].verification_code = Some(code), ![i].segment = "local",
                 ![i].brand_queue = Anomaly]

\* the $set of the resend path: verification_code (updated_at is left out)
set_code(coll, i, code) == [coll EXCEPT ![i].verification_code = Some(code)]

\* the response of a handler that _send_sms returned to, or raised into
after_send(sent, ok) == IF sent.raised THEN [status |-> 500] ELSE ok

\* POST /contacts/register
register_contact(payload, code, outcome) ==
    LET phone == _normalize_phone(payload.phone)
        existing == find_contact_by_phone(contacts, phone)
        brand == lower(or_default(payload.brand_queue, Anomaly))
        sent == _send_sms(phone, sms_body(code), "verify", outcome)
        req == [op |-> "register", phone |-> phone, sms |-> sent.sid,
                state |-> payload.state, brand_queue |-> payload.brand_queue]
    IN  IF existing # 0
        THEN /\ Len(smslog) < MaxSms
             /\ contacts' = set_code(contacts, existing, code)
             /\ smslog' = smslog \o sent.rows
             /\ provider_seq' = provider_seq + sent.accepted
             /\ last' = req @@ after_send(sent,
                    [status |-> 200, path |-> "existing",
                     id |-> oid_str(contacts[existing]._id)])
             /\ issued' = [issued EXCEPT ![phone] = Some(code)]
             /\ outstanding' = [outstanding EXCEPT ![phone] = TRUE]
             /\ UNCHANGED <<config, events, rsvps, firstRegId, rsvpIds, received>>
        ELSE IF brand \notin BrandQueues
        THEN \* Contact(...) raises a ValidationError: the request fails with 500
             /\ last' = [op |-> "register", phone |-> phone, sms |-> None, status |-> 500]
             /\ UNCHANGED <<config, contacts, events, rsvps, smslog, provider_seq, history>>
        ELSE /\ Len(smslog) < MaxSms
             /\ contacts' = Append(contacts,
                    [_id |-> new_oid("contact", contacts), phone |-> phone,
                     verification_code |-> Some(code), phone_verified |-> FALSE,
                     segment |-> segment_of(payload.state), brand_queue |-> brand,
                     status |-> "pending"])
             /\ smslog' = smslog \o sent.rows
             /\ provider_seq' = provider_seq + sent.accepted
             /\ last' = req @@ after_send(sent,
                    [status |-> 200, path |-> "new",
                     id |-> oid_str(new_oid("contact", contacts))])
             /\ issued' = [issued EXCEPT ![phone] = Some(code)]
             /\ outstanding' = [outstanding EXCEPT ![phone] = TRUE]
             /\ firstRegId' = [firstRegId EXCEPT ![phone] =
                    IF @ = None /\ ~sent.raised
                    THEN Some(oid_str(new_oid("contact", contacts))) ELSE @]
             /\ UNCHANGED <<config, events, rsvps, rsvpIds, received>>

\* POST /contacts/verify/send
send_verification(payload, code, outcome) ==
    LET phone == _normalize_phone(payload.phone)
        contact == find_contact_by_phone(contacts, phone)
        sent == _send_sms(phone, sms_body(code), "verify", outcome)
        req == [op |-> "send_verification", phone |-> phone]
    IN  IF contact = 0
        THEN /\ last' = req @@ [status |-> 404, detail |-> "Contact not found"]
             /\ UNCHANGED <<config, contacts, events, rsvps, smslog, provider_seq, history>>
        ELSE /\ Len(smslog) < MaxSms
             /\ contacts' = set_code(contacts, contact, code)
             /\ smslog' = smslog \o sent.rows
             /\ provider_seq' = provider_seq + sent.accepted
             /\ last' = req @@ after_send(sent, [status |-> 200, sms |-> sent.sid])
             /\ issued' = [issued EXCEPT ![phone] = Some(code)]
             /\ outstanding' = [outstanding EXCEPT ![phone] = TRUE]
             /\ UNCHANGED <<config, events, rsvps, firstRegId, rsvpIds, received>>

\* a confirmation that leaves the code in place
set_verified_keep_code(coll, i) == [coll EXCEPT ![i].phone_verified = TRUE]

\* a confirmation that clears the code and forgets to set phone_verified
set_code_cleared(coll, i) == [coll EXCEPT ![i].verification_code = None]

\* the $set of a confirmation: phone_verified and verification_code
set_verified(coll, i) ==
    [coll EXCEPT ![i].phone_verified = TRUE, ![i].verification_code = None]

\* a comparison that lets any code pass when no code is stored
code_mismatch_if_stored(code, stored) == stored # None /\ Some(code) # stored

\* payload.code != contact.get("verification_code")
code_mismatch(code, stored) == Some(code) # stored

\* POST /contacts/verify/confirm
confirm_verification(payload) ==
    LET phone == _normalize_phone(payload.phone)
        contact == find_contact_by_phone(contacts, phone)
        req == [op |-> "confirm_verification", phone |-> phone, code |-> payload.code]
    IN  IF contact = 0
        THEN /\ last' = req @@ [status |-> 404, detail |-> "Contact not found"]
             /\ UNCHANGED <<config, contacts, events, rsvps, smslog, provider_seq, history>>
        ELSE IF code_mismatch(payload.code, contacts[contact].verification_code)
        THEN /\ last' = req @@ [status |-> 400, detail |-> "Invalid verification code"]
             /\ UNCHANGED <<config, contacts, events, rsvps, smslog, provider_seq, history>>
        ELSE /\ contacts' = set_verified(contacts, contact)
             /\ last' = req @@ [status |-> 200,
                                contact_id |-> oid_str(contacts[contact]._id)]
             /\ outstanding' = [outstanding EXCEPT ![phone] = FALSE]
             /\ UNCHANGED <<config, events, rsvps, smslog, provider_seq, issued, firstRegId,
                            rsvpIds, received>>

\* schemas.Event.type: Literal["club", "after", "special", "private"]
EventTypes == {"club", "after", "special", "private"}

EventCreateRequest == { [type |-> None], [type |-> Some("gala")] }

\* POST /events
create_event(payload) ==
    LET type == IF payload.type = None \/ payload.type[1] = "" THEN "club"
                ELSE payload.type[1]
    IN  IF type \notin EventTypes
        THEN \* Event(...) raises a ValidationError: the request fails with 500
             /\ last' = [op |-> "create_event", status |-> 500]
             /\ UNCHANGED <<config, contacts, events, rsvps, smslog, provider_seq, history>>
        ELSE /\ Len(events) < MaxEvents
             /\ events' = Append(events, [_id |-> new_oid("event", events), type |-> type,
                                          status |-> "scheduled"])
             /\ last' = [op |-> "create_event", status |-> 200,
                         id |-> oid_str(new_oid("event", events))]
             /\ UNCHANGED <<config, contacts, rsvps, smslog, provider_seq, history>>

\* schemas.Rsvp.status: Literal["yes", "not_this_time", "no_response"]
RsvpStatuses == {"yes", "not_this_time", "no_response"}

\* the identifier texts a caller sends: the ids of the stored contacts (events)
\* and one id of no document, and a malformed text; contact ids come in lower
\* and in upper case
BadIdText == [oid |-> [coll |-> "", k |-> 0], form |-> "bad"]

ids_of(coll) == { coll[i]._id : i \in 1..Len(coll) }

ContactIdTexts ==
    { [oid |-> k, form |-> f] :
        k \in ids_of(contacts) \cup {new_oid("contact", contacts)}, f \in {"lower", "upper"} }
        \cup {BadIdText}

EventIdTexts ==
    { [oid |-> k, form |-> "lower"] : k \in ids_of(events) \cup {new_oid("event", events)} }
        \cup {BadIdText}

RsvpStatusInputs == {"yes", "not_this_time", "maybe"}

RsvpRequest ==
    { [contact_id |-> c, event_id |-> e, status |-> st] :
        c \in ContactIdTexts, e \in EventIdTexts, st \in RsvpStatusInputs }

\* a lookup by the event alone
find_rsvp_by_event(coll, contact_id, event_id) ==
    find_one(coll, [event_id |-> event_id])

\* a lookup with the parsed ObjectIds, which no stored text equals
find_rsvp_by_object_id(coll, contact_id, event_id) ==
    find_one(coll, [contact_id |-> [contact_id EXCEPT !.form = "ObjectId"],
                    event_id |-> [event_id EXCEPT !.form = "ObjectId"]])

\* rsvp.find_one({"contact_id": ..., "event_id": ...}) on the texts as sent
find_rsvp(coll, contact_id, event_id) ==
    find_one(coll, [contact_id |-> contact_id, event_id |-> event_id])

\* the same checks with the event looked up before the contact
rsvp_reference_error_event_first(payload, contact_coll, event_coll) ==
    LET contact_id == ObjectId(payload.contact_id)
        event_id == ObjectId(payload.event_id)
    IN  IF contact_id = None \/ event_id = None
        THEN Some([status |-> 400, detail |-> "Invalid IDs"])
        ELSE IF find_by_id(event_coll, event_id[1]) = 0
        THEN Some([status |-> 404, detail |-> "Event not found"])
        ELSE IF find_by_id(contact_coll, contact_id[1]) = 0
        THEN Some([status |-> 404, detail |-> "Contact not found"])
        ELSE None

\* the checks of upsert_rsvp before it reads the rsvp collection: the
\* HTTPException it raises, None when it raises none
rsvp_reference_error(payload, contact_coll, event_coll) ==
    LET contact_id == ObjectId(payload.contact_id)
        event_id == ObjectId(payload.event_id)
    IN  IF contact_id = None \/ event_id = None
        THEN Some([status |-> 400, detail |-> "Invalid IDs"])
        ELSE IF find_by_id(contact_coll, contact_id[1]) = 0
        THEN Some([status |-> 404, detail |-> "Contact not found"])
        ELSE IF find_by_id(event_coll, event_id[1]) = 0
        THEN Some([status |-> 404, detail |-> "Event not found"])
        ELSE None

\* the history of the ids upsert_rsvp returned
note_rsvp(payload, id) ==
    { e \in rsvpIds : ~(e.contact_id = payload.contact_id /\ e.event_id = payload.event_id
                            /\ e.id = id) }
        \cup {[contact_id |-> payload.contact_id, event_id |-> payload.event_id,
               id |-> id, status |-> payload.status]}

\* POST /rsvps
upsert_rsvp(payload) ==
    LET error == rsvp_reference_error(payload, contacts, events)
        r == find_rsvp(rsvps, payload.contact_id, payload.event_id)
        req == [op |-> "upsert_rsvp", contact_id |-> payload.contact_id,
                event_id |-> payload.event_id, rsvp_status |-> payload.status]
    IN  IF error # None
        THEN /\ last' = req @@ error[1]
             /\ UNCHANGED <<config, contacts, events, rsvps, smslog, provider_seq, history>>
        ELSE IF r # 0
        THEN /\ rsvps' = [rsvps EXCEPT ![r].status = payload.status]
             /\ last' = req @@ [status |-> 200, path |-> "update",
                                id |-> oid_str(rsvps[r]._id)]
             /\ rsvpIds' = note_rsvp(payload, oid_str(rsvps[r]._id))
             /\ UNCHANGED <<config, contacts, events, smslog, provider_seq, issued,
                            outstanding, firstRegId, received>>
        ELSE IF payload.status \notin RsvpStatuses
        THEN \* Rsvp(...) raises a ValidationError: the request fails with 500
             /\ last' = req @@ [status |-> 500, detail |-> "Internal Server Error"]
             /\ UNCHANGED <<config, contacts, events, rsvps, smslog, provider_seq, history>>
        ELSE /\ Len(rsvps) < MaxRsvps
             /\ rsvps' = Append(rsvps,
                    [_id |-> new_oid("rsvp", rsvps), contact_id |-> payload.contact_id,
                     event_id |-> payload.event_id, status |-> payload.status])
             /\ last' = req @@ [status |-> 200, path |-> "insert",
                                id |-> oid_str(new_oid("rsvp", rsvps))]
             /\ rsvpIds' = note_rsvp(payload, oid_str(new_oid("rsvp", rsvps)))
             /\ UNCHANGED <<config, contacts, events, smslog, provider_seq, issued,
                            outstanding, firstRegId, received>>

\* the callbacks the model delivers: MessageSid absent, empty, a sid the
\* provider has issued, or a sid it never issues (it numbers its sids from 1)
WebhookSids ==
    {None, Some(""), Some(provider_sid(0))} \cup
        { Some(provider_sid(k)) : k \in 1..provider_seq }

WebhookForms ==
    { [MessageSid |-> sid, MessageStatus |-> x.status, To |-> None, ErrorCode |-> x.error] :
        sid \in WebhookSids,
        x \in { [status |-> Some("delivered"), error |-> None],
                [status |-> Some("undelivered"), error |-> Some("30003")],
                [status |-> None, error |-> None] } }

find_sms_by_sid(coll, sid) ==
    find_one(coll, [provider_message_sid |-> Some(sid)])

\* the same update without upsert=True
update_one_no_upsert(coll, sid, status, entry) ==
    LET row == find_sms_by_sid(coll, sid)
    IN  IF row # 0
        THEN [coll EXCEPT ![row].status = status, ![row].logs = Append(@, entry)]
        ELSE coll

\* the same update with $set in place of $push: the entry replaces the logs
update_one_set_logs(coll, sid, status, entry) ==
    LET row == find_sms_by_sid(coll, sid)
    IN  IF row # 0
        THEN [coll EXCEPT ![row].status = status, ![row].logs = <<entry>>]
        ELSE Append(coll,
                [_id |-> new_oid("smsmessage", coll), to |-> None, body |-> None,
                 purpose |-> None, status |-> status, provider_message_sid |-> Some(sid),
                 error_message |-> None, logs |-> <<entry>>])

\* update_one({"provider_message_sid": sid}, {"$set": ..., "$push": ...}, upsert=True)
update_one_upsert(coll, sid, status, entry) ==
    LET row == find_sms_by_sid(coll, sid)
    IN  IF row # 0
        THEN [coll EXCEPT ![row].status = status, ![row].logs = Append(@, entry)]
        ELSE Append(coll,
                [_id |-> new_oid("smsmessage", coll), to |-> None, body |-> None,
                 purpose |-> None, status |-> status, provider_message_sid |-> Some(sid),
                 error_message |-> None, logs |-> <<entry>>])

\* the log entries of all the rows of the message log
RECURSIVE logged(_)
logged(coll) ==
    IF coll = <<>> THEN 0 ELSE Len(Head(coll).logs) + logged(Tail(coll))

\* the history of the callbacks received
note_callback(sid, status) ==
    IF sid \in DOMAIN received
    THEN [received EXCEPT ![sid] = Append(@, status)]
    ELSE received @@ (sid :> <<status>>)

\* POST /sms/webhook
sms_status_webhook(form) ==
    LET message_sid == form.MessageSid
        message_status == form.MessageStatus
        entry == [status |-> message_status, to |-> form.To, error_code |-> form.ErrorCode]
        row == IF message_sid = None THEN 0 ELSE find_sms_by_sid(smslog, message_sid[1])
        req == [op |-> "sms_status_webhook", sid |-> message_sid,
                message_status |-> message_status]
    IN  IF message_sid = None \/ message_sid[1] = ""
        THEN /\ last' = req @@ [status |-> 200, ok |-> TRUE]
             /\ UNCHANGED <<config, contacts, events, rsvps, smslog, provider_seq, history>>
        ELSE /\ logged(smslog) < MaxLogs
             /\ row = 0 => Len(smslog) < MaxSms
             /\ smslog' = update_one_upsert(smslog, message_sid[1], message_status, entry)
             /\ last' = req @@ [status |-> 200, ok |-> TRUE]
             /\ received' = note_callback(message_sid[1], message_status)
             /\ UNCHANGED <<config, contacts, events, rsvps, provider_seq, issued,
                            outstanding, firstRegId, rsvpIds>>

\* ------------------------------------------------------------------ actions
RegisterFrom(payloads, codes) ==
    \E payload \in payloads, code \in codes, outcome \in ProviderOutcomes :
        register_contact(payload, code, outcome)

SendVerificationFrom(payloads, codes) ==
    \E payload \in payloads, code \in codes, outcome \in ProviderOutcomes :
        send_verification(payload, code, outcome)

Register == RegisterFrom(RegistrationRequest, Codes)

SendVerification == SendVerificationFrom(VerifySendRequest, Codes)

ConfirmVerification == \E payload \in VerifyConfirmRequest : confirm_verification(payload)

CreateEvent == \E payload \in EventCreateRequest : create_event(payload)

UpsertRsvp == \E payload \in RsvpRequest : upsert_rsvp(payload)

SmsStatusWebhook == \E form \in WebhookForms : sms_status_webhook(form)

\* registrations and resends with one raw form per phone and a single code, for
\* the specifications whose subject is not the verification code
PlainPhones == { <<"5", "5", "5", "-", "0", "0", "0", "-", "1", "1", "1", "1">>, <<"4", "2">> }

PlainRegistration == { [phone |-> p, state |-> None, brand_queue |-> None] : p \in PlainPhones }

RegisterPlain == RegisterFrom(PlainRegistration, {str(CodeLo)})

SendVerificationPlain == SendVerificationFrom({ [phone |-> p] : p \in PlainPhones }, {str(CodeLo)})

\* ------------------------------------------- interleaved request handling
\* The same handlers, one store operation (find_one, update_one, insert), one
\* provider call or one log write per step, for requests handled at the same
\* time by different workers. A request begins with its first find_one.

\* update_one({"_id": id}, ...): the index of the document with that _id
by_id(coll, oid) == find_by_id(coll, oid)

\* a request is given to the first worker that is free
free(w) == inflight[w] = Idle /\ \A v \in 1..(w - 1) : inflight[v] # Idle

\* the requests in flight that will log a row, and room in the log for one more
dispatching == { w \in Workers : inflight[w].pc \in {"update", "insert", "provider", "log"} }

room_to_send == Len(smslog) + Cardinality(dispatching) < MaxSms

finish(w, response) ==
    /\ inflight' = [inflight EXCEPT ![w] = Idle]
    /\ last' = response

goto(w, locals) == inflight' = [inflight EXCEPT ![w] = locals]

\* register_contact, main.py:145-147 and the validation of lines 158-171; seen
\* is history: the number of contacts stored when the find_one ran
register_find(w, payload, code) ==
    LET phone == _normalize_phone(payload.phone)
        existing == find_contact_by_phone(contacts, phone)
        brand == lower(or_default(payload.brand_queue, Anomaly))
        locals == [op |-> "register", phone |-> phone, code |-> code]
    IN  /\ free(w)
        /\ IF existing # 0
           THEN /\ room_to_send
                /\ goto(w, locals @@ [pc |-> "update", id |-> contacts[existing]._id,
                                      path |-> "existing"])
                /\ UNCHANGED last
           ELSE IF brand \notin BrandQueues
           THEN finish(w, [op |-> "register", phone |-> phone, sms |-> None,
                           status |-> 500])
           ELSE /\ room_to_send
                /\ goto(w, locals @@ [pc |-> "insert", brand_queue |-> brand,
                                      segment |-> segment_of(payload.state),
                                      seen |-> Len(contacts)])
                /\ UNCHANGED last
        /\ UNCHANGED <<twilio_client, TWILIO_FROM_NUMBER, stores, history>>

\* send_verification, main.py:179-182
send_find(w, payload, code) ==
    LET phone == _normalize_phone(payload.phone)
        contact == find_contact_by_phone(contacts, phone)
    IN  /\ free(w)
        /\ IF contact = 0
           THEN finish(w, [op |-> "send_verification", phone |-> phone, status |-> 404,
                           detail |-> "Contact not found"])
           ELSE /\ room_to_send
                /\ goto(w, [op |-> "send_verification", phone |-> phone, code |-> code,
                            pc |-> "update", id |-> contacts[contact]._id])
                /\ UNCHANGED last
        /\ UNCHANGED <<twilio_client, TWILIO_FROM_NUMBER, stores, history>>

\* confirm_verification, main.py:191-196
confirm_find(w, payload) ==
    LET phone == _normalize_phone(payload.phone)
        contact == find_contact_by_phone(contacts, phone)
        req == [op |-> "confirm_verification", phone |-> phone, code |-> payload.code]
    IN  /\ free(w)
        /\ IF contact = 0
           THEN finish(w, req @@ [status |-> 404, detail |-> "Contact not found"])
           ELSE IF code_mismatch(payload.code, contacts[contact].verification_code)
           THEN finish(w, req @@ [status |-> 400, detail |-> "Invalid verification code"])
           ELSE /\ goto(w, req @@ [pc |-> "verify", id |-> contacts[contact]._id])
                /\ UNCHANGED last
        /\ UNCHANGED <<twilio_client, TWILIO_FROM_NUMBER, stores, history>>

\* the update_one of the resend path, main.py:151 and main.py:184
code_update(w) ==
    LET l == inflight[w]
    IN  /\ l.pc = "update"
        /\ contacts' = set_code(contacts, by_id(contacts, l.id), l.code)
        /\ goto(w, [l EXCEPT !.pc = "provider"])
        /\ UNCHANGED <<twilio_client, TWILIO_FROM_NUMBER, events, rsvps, smslog,
                       provider_seq, last, history>>

\* create_document("contact", contact), main.py:172
contact_insert(w) ==
    LET l == inflight[w]
        id == new_oid("contact", contacts)
    IN  /\ l.pc = "insert"
        /\ contacts' = Append(contacts,
                [_id |-> id, phone |-> l.phone, verification_code |-> Some(l.code),
                 phone_verified |-> FALSE, segment |-> l.segment,
                 brand_queue |-> l.brand_queue, status |-> "pending"])
        /\ goto(w, [op |-> "register", phone |-> l.phone, code |-> l.code,
                    pc |-> "provider", id |-> id, path |-> "new"])
        /\ UNCHANGED <<twilio_client, TWILIO_FROM_NUMBER, events, rsvps, smslog,
                       provider_seq, last, history>>

\* _send_sms up to its log write, main.py:58-68: the provider is called when
\* the gateway is configured
provider_call(w, outcome) ==
    LET l == inflight[w]
        sent == _send_sms(l.phone, sms_body(l.code), "verify", outcome)
    IN  /\ l.pc = "provider"
        /\ provider_seq' = provider_seq + sent.accepted
        /\ goto(w, [op |-> l.op, phone |-> l.phone, pc |-> "log", id |-> l.id,
                    sent |-> sent] @@
                   (IF l.op = "register" THEN [path |-> l.path] ELSE <<>>))
        /\ UNCHANGED <<twilio_client, TWILIO_FROM_NUMBER, contacts, events, rsvps, smslog,
                       last, history>>

\* the create_document of _send_sms, main.py:69-74, and the handler's return
log_write(w) ==
    LET l == inflight[w]
        rows == [i \in 1..Len(l.sent.rows) |->
                    [l.sent.rows[i] EXCEPT !._id = new_oid("smsmessage", smslog)]]
        req == [op |-> l.op, phone |-> l.phone, sms |-> l.sent.sid]
    IN  /\ l.pc = "log"
        /\ smslog' = smslog \o rows
        /\ finish(w, req @@ after_send(l.sent,
                IF l.op = "register"
                THEN [status |-> 200, path |-> l.path, id |-> oid_str(l.id)]
                ELSE [status |-> 200]))
        /\ UNCHANGED <<twilio_client, TWILIO_FROM_NUMBER, contacts, events, rsvps,
                       provider_seq, history>>

\* the update_one of confirm_verification, main.py:198-202
verify_update(w) ==
    LET l == inflight[w]
    IN  /\ l.pc = "verify"
        /\ contacts' = set_verified(contacts, by_id(contacts, l.id))
        /\ finish(w, [op |-> "confirm_verification", phone |-> l.phone, code |-> l.code,
                      status |-> 200, contact_id |-> oid_str(l.id)])
        /\ UNCHANGED <<twilio_client, TWILIO_FROM_NUMBER, events, rsvps, smslog,
                       provider_seq, history>>

\* upsert_rsvp, main.py:245-252: the ids are parsed and the contact looked up
rsvp_begin(w, payload) ==
    LET contact_id == ObjectId(payload.contact_id)
        event_id == ObjectId(payload.event_id)
        req == [op |-> "upsert_rsvp", contact_id |-> payload.contact_id,
                event_id |-> payload.event_id, rsvp_status |-> payload.status]
    IN  /\ free(w)
        /\ IF contact_id = None \/ event_id = None
           THEN finish(w, req @@ [status |-> 400, detail |-> "Invalid IDs"])
           ELSE IF find_by_id(contacts, contact_id[1]) = 0
           THEN finish(w, req @@ [status |-> 404, detail |-> "Contact not found"])
           ELSE /\ goto(w, req @@ [pc |-> "rsvp_event"])
                /\ UNCHANGED last
        /\ UNCHANGED <<twilio_client, TWILIO_FROM_NUMBER, stores, history>>

\* upsert_rsvp, main.py:253-254: the event is looked up
rsvp_event(w) ==
    LET l == inflight[w]
        req == [op |-> "upsert_rsvp", contact_id |-> l.contact_id,
                event_id |-> l.event_id, rsvp_status |-> l.rsvp_status]
    IN  /\ l.pc = "rsvp_event"
        /\ IF find_by_id(events, ObjectId(l.event_id)[1]) = 0
           THEN finish(w, req @@ [status |-> 404, detail |-> "Event not found"])
           ELSE /\ goto(w, [l EXCEPT !.pc = "rsvp_find"])
                /\ UNCHANGED last
        /\ UNCHANGED <<twilio_client, TWILIO_FROM_NUMBER, stores, history>>

\* the upserts in flight that will insert a record
inserting == { w \in Workers : inflight[w].pc = "rsvp_insert" }

\* upsert_rsvp, main.py:256-257 and the validation of line 261; seen is
\* history: the number of records stored when the find_one ran
rsvp_find(w) ==
    LET l == inflight[w]
        r == find_rsvp(rsvps, l.contact_id, l.event_id)
        req == [op |-> "upsert_rsvp", contact_id |-> l.contact_id,
                event_id |-> l.event_id, rsvp_status |-> l.rsvp_status]
    IN  /\ l.pc = "rsvp_find"
        /\ IF r # 0
           THEN /\ goto(w, req @@ [pc |-> "rsvp_update", id |-> rsvps[r]._id])
                /\ UNCHANGED last
           ELSE IF l.rsvp_status \notin RsvpStatuses
           THEN finish(w, req @@ [status |-> 500, detail |-> "Internal Server Error"])
           ELSE /\ Len(rsvps) + Cardinality(inserting) < MaxRsvps
                /\ goto(w, req @@ [pc |-> "rsvp_insert", seen |-> Len(rsvps)])
                /\ UNCHANGED last
        /\ UNCHANGED <<twilio_client, TWILIO_FROM_NUMBER, stores, history>>

\* upsert_rsvp, main.py:258-259 and 263: the update_one by _id
rsvp_update(w) ==
    LET l == inflight[w]
    IN  /\ l.pc = "rsvp_update"
        /\ rsvps' = [rsvps EXCEPT ![by_id(rsvps, l.id)].status = l.rsvp_status]
        /\ finish(w, [op |-> "upsert_rsvp", contact_id |-> l.contact_id,
                      event_id |-> l.event_id, rsvp_status |-> l.rsvp_status,
                      status |-> 200, path |-> "update", id |-> oid_str(l.id)])
        /\ UNCHANGED <<twilio_client, TWILIO_FROM_NUMBER, contacts, events, smslog,
                       provider_seq, history>>

\* upsert_rsvp, main.py:261-263: create_document("rsvp", rsvp)
rsvp_insert(w) ==
    LET l == inflight[w]
        id == new_oid("rsvp", rsvps)
    IN  /\ l.pc = "rsvp_insert"
        /\ rsvps' = Append(rsvps,
                [_id |-> id, contact_id |-> l.contact_id, event_id |-> l.event_id,
                 status |-> l.rsvp_status])
        /\ finish(w, [op |-> "upsert_rsvp", contact_id |-> l.contact_id,
                      event_id |-> l.event_id, rsvp_status |-> l.rsvp_status,
                      status |-> 200, path |-> "insert", id |-> oid_str(id)])
        /\ UNCHANGED <<twilio_client, TWILIO_FROM_NUMBER, contacts, events, smslog,
                       provider_seq, history>>

\* ----------------------------------------------------------- specifications
\* the verification state machine, its requests handled one at a time
NextVerify ==
    \/ Register
    \/ SendVerification
    \/ ConfirmVerification

SpecVerify == Init /\ [][NextVerify]_vars

\* the SMS gateway and the delivery-status reconciler
NextSms ==
    \/ RegisterPlain
    \/ SendVerificationPlain
    \/ SmsStatusWebhook

SpecSms == Init /\ [][NextSms]_vars

\* the RSVP upsert engine, its requests handled one at a time
OnePhone == { [phone |-> <<"4", "2">>, state |-> None, brand_queue |-> None] }

RegisterOne == RegisterFrom(OnePhone, {str(CodeLo)})

NextRsvp ==
    \/ RegisterOne
    \/ CreateEvent
    \/ UpsertRsvp

\* the SMS gateway runs in its log-only mode here
InitRsvp == Init /\ ~twilio_client /\ ~TWILIO_FROM_NUMBER

SpecRsvp == InitRsvp /\ [][NextRsvp]_vars

\* every operation of the system, the verification requests interleaved; one
\* phone in two raw forms
BusyPhones == { <<"4", "2">>, <<" ", "+", "4", "2">> }

BusyRegistration == { [phone |-> p, state |-> None, brand_queue |-> None] : p \in BusyPhones }

RegisterFind ==
    \E w \in Workers, payload \in BusyRegistration, code \in Codes :
        register_find(w, payload, code)

SendFind ==
    \E w \in Workers, p \in BusyPhones, code \in Codes : send_find(w, [phone |-> p], code)

ConfirmFind ==
    \E w \in Workers, p \in BusyPhones, code \in CodeInputs :
        confirm_find(w, [phone |-> p, code |-> code])

CodeUpdate == \E w \in Workers : code_update(w)

ContactInsert == \E w \in Workers : contact_insert(w)

ProviderCall == \E w \in Workers, outcome \in ProviderOutcomes : provider_call(w, outcome)

LogWrite == \E w \in Workers : log_write(w)

VerifyUpdate == \E w \in Workers : verify_update(w)

\* the other operations, handled in one piece, with requests that succeed
CreateEventPlain == create_event([type |-> None])

UpsertRsvpPlain ==
    \E c \in ids_of(contacts), e \in ids_of(events) :
        upsert_rsvp([contact_id |-> oid_str(c), event_id |-> oid_str(e), status |-> "yes"])

SmsStatusWebhookPlain ==
    \E k \in 1..provider_seq :
        sms_status_webhook([MessageSid |-> Some(provider_sid(k)),
                            MessageStatus |-> Some("delivered"), To |-> None,
                            ErrorCode |-> None])

NextConc ==
    \/ RegisterFind
    \/ SendFind
    \/ ConfirmFind
    \/ CodeUpdate
    \/ ContactInsert
    \/ ProviderCall
    \/ LogWrite
    \/ VerifyUpdate
    \/ CreateEventPlain
    \/ UpsertRsvpPlain
    \/ SmsStatusWebhookPlain

\* the provider's credentials and the sender number are set together
InitConc == Init /\ (twilio_client <=> TWILIO_FROM_NUMBER)

SpecConc == InitConc /\ [][NextConc]_vars

\* the RSVP upsert engine, its upserts interleaved one store operation at a time
\* the upserts sent here name a stored contact or an unknown one, a stored
\* event or a malformed event id
BusyRsvpRequest ==
    { [contact_id |-> oid_str(c), event_id |-> e, status |-> st] :
        c \in ids_of(contacts) \cup {new_oid("contact", contacts)},
        e \in { oid_str(k) : k \in ids_of(events) } \cup {BadIdText},
        st \in RsvpStatusInputs }

RsvpBegin == \E w \in Workers, payload \in BusyRsvpRequest : rsvp_begin(w, payload)

RsvpEvent == \E w \in Workers : rsvp_event(w)

RsvpFind == \E w \in Workers : rsvp_find(w)

RsvpUpdate == \E w \in Workers : rsvp_update(w)

RsvpInsert == \E w \in Workers : rsvp_insert(w)

NextRsvpConc ==
    \/ RegisterOne
    \/ CreateEvent
    \/ RsvpBegin
    \/ RsvpEvent
    \/ RsvpFind
    \/ RsvpUpdate
    \/ RsvpInsert

SpecRsvpConc == InitRsvp /\ [][NextRsvpConc]_vars

\* the phone normalizer alone: it is called for the empty text and then, again
\* and again, for the text of the call before with one more character, a
\* digit (the digits come in the order 1, 2, ..., 9, 0, 1, ...) or one of
\* "+", " " and "-"
OtherChars == {"+", " ", "-"}

others_in(s) == Cardinality({ k \in 1..Len(s) : s[k] \in OtherChars })

next_digit(s) == DigitOf[((Len(s) - others_in(s) + 1) % 10) + 1]

normalize_call(phone) ==
    /\ last' = [op |-> "normalize", status |-> 200, phone |-> phone,
                result |-> _normalize_phone(phone)]
    /\ UNCHANGED <<config, stores, history>>

Normalize ==
    /\ last.op = "normalize"
    /\ Len(last.phone) < MaxPhoneLen
    /\ \E ch \in OtherChars \cup {next_digit(last.phone)} :
            /\ ch \in OtherChars => others_in(last.phone) < MaxOther
            /\ normalize_call(Append(last.phone, ch))

NextNormalize == Normalize

InitNormalize ==
    /\ twilio_client = FALSE
    /\ TWILIO_FROM_NUMBER = FALSE
    /\ contacts = <<>>
    /\ events = <<>>
    /\ rsvps = <<>>
    /\ smslog = <<>>
    /\ provider_seq = 0
    /\ last = [op |-> "normalize", status |-> 200, phone |-> <<>>,
               result |-> _normalize_phone(<<>>)]
    /\ issued = [p \in Phones |-> None]
    /\ outstanding = [p \in Phones |-> FALSE]
    /\ firstRegId = [p \in Phones |-> None]
    /\ rsvpIds = {}
    /\ received = [sid \in {} |-> <<>>]
    /\ inflight = [w \in Workers |-> Idle]

SpecNormalize == InitNormalize /\ [][NextNormalize]_vars

\* ------------------------------------------------------------------- claims
contacts_with(phone) == { i \in 1..Len(contacts) : contacts[i].phone = phone }

\* C1: with the requests handled one at a time, the contact collection holds at
\* most one contact per normalized phone, only the first register of a phone
\* creates a contact, and every successful register returns the id the first
\* register of its phone returned, which is the id of the stored contact.
C1_OneContactPerPhone ==
    /\ \A p \in Phones : Cardinality(contacts_with(p)) <= 1
    /\ \A p \in Phones : (firstRegId[p] # None) <=> (contacts_with(p) # {})
    /\ \A i \in 1..Len(contacts) :
            /\ contacts[i].phone \in Phones
            /\ firstRegId[contacts[i].phone] = Some(oid_str(contacts[i]._id))
    /\ (last.op = "register" /\ last.status = 200) =>
            /\ firstRegId[last.phone] = Some(last.id)
            /\ \E i \in contacts_with(last.phone) : oid_str(contacts[i]._id) = last.id

\* a register for a phone that already had a contact has answered
C1_Witness ==
    /\ last.op = "register"
    /\ last.status = 200
    /\ last.path = "existing"
    /\ Len(contacts) = 1
    /\ Len(smslog) = 2

\* C2: a confirmation succeeds only with the code the latest register or
\* send_verification of the phone wrote, and then the contact is verified; a
\* confirmation with another code, such as the code an earlier call wrote,
\* fails with 400; and while the latest code is outstanding a confirmation
\* with it does not fail.
C2_LatestCodeOnly ==
    /\ \A i \in 1..Len(contacts) :
            outstanding[contacts[i].phone] =>
                contacts[i].verification_code = issued[contacts[i].phone]
    /\ (last.op = "confirm_verification" /\ last.status = 200) =>
            /\ Some(last.code) = issued[last.phone]
            /\ \A i \in contacts_with(last.phone) : contacts[i].phone_verified
    /\ (last.op = "confirm_verification" /\ contacts_with(last.phone) # {}
            /\ Some(last.code) # issued[last.phone]) =>
            /\ last.status = 400
            /\ last.detail = "Invalid verification code"
    /\ (last.op = "confirm_verification" /\ last.status # 200) =>
            ~(outstanding[last.phone] /\ Some(last.code) = issued[last.phone])

\* register wrote one code, a later call for the phone wrote another, and a
\* confirmation with the first one was turned down
C2_WitnessOldCode ==
    /\ last.op = "confirm_verification"
    /\ last.status = 400
    /\ Len(smslog) = 2
    /\ smslog[1].body = Some(sms_body(last.code))
    /\ smslog[2].body # smslog[1].body
    /\ smslog[2].to = smslog[1].to
    /\ outstanding[last.phone]

C3_Step ==
    \A i \in 1..Len(contacts) :
        contacts[i].phone_verified =>
            /\ i <= Len(contacts')
            /\ contacts'[i]._id = contacts[i]._id
            /\ contacts'[i].phone_verified

\* C3: no step of any operation, the verification requests interleaved one
\* store operation at a time, takes a contact whose phone_verified is true to
\* a state where that contact is missing or its phone_verified is false.
C3_VerifiedStays == [][C3_Step]_vars

\* a verified contact was given a new code, with an RSVP stored for it
C3_Witness ==
    /\ rsvps # <<>>
    /\ \E i \in 1..Len(contacts) :
            /\ contacts[i].phone_verified
            /\ contacts[i].verification_code # None
            /\ rsvps[1].contact_id = oid_str(contacts[i]._id)

\* the same confirmation, sent again
confirms_again ==
    /\ confirm_verification([phone |-> last.phone, code |-> last.code])
    /\ last'.status = 200

C4_Confirmed ==
    (last.op = "confirm_verification" /\ last.status = 200) =>
        /\ \E i \in contacts_with(last.phone) :
                /\ contacts[i].phone_verified
                /\ contacts[i].verification_code = None
                /\ last.contact_id = oid_str(contacts[i]._id)
        /\ ~ENABLED confirms_again

C4_Frame ==
    (last'.op = "confirm_verification" /\ last'.status = 200) =>
        /\ Len(contacts') = Len(contacts)
        /\ \A i \in 1..Len(contacts) :
                IF contacts[i].phone = last'.phone
                THEN contacts'[i] = [contacts[i] EXCEPT !.phone_verified = TRUE,
                                                        !.verification_code = None]
                ELSE contacts'[i] = contacts[i]
        /\ UNCHANGED <<events, rsvps, smslog>>

\* C4: a successful confirm_verification leaves the matched contact with
\* phone_verified true and no verification_code, returns that contact's id,
\* changes nothing else of that contact and no other contact, and the same
\* confirmation sent again right after it cannot succeed.
C4_ConfirmSetsVerifiedOnce == []C4_Confirmed /\ [][C4_Frame]_vars

\* a confirmation succeeded while another contact was stored
C4_Witness ==
    /\ last.op = "confirm_verification"
    /\ last.status = 200
    /\ Len(contacts) = 2
    /\ \E i \in 1..2 : ~contacts[i].phone_verified /\ contacts[i].verification_code # None

C5_Step ==
    /\ last'.op = "send_verification" =>
            IF contacts_with(last'.phone) = {}
            THEN /\ last'.status = 404
                 /\ last'.detail = "Contact not found"
                 /\ UNCHANGED stores
            ELSE last'.status = 200
    /\ last'.op = "confirm_verification" =>
            IF contacts_with(last'.phone) = {}
            THEN /\ last'.status = 404
                 /\ last'.detail = "Contact not found"
                 /\ UNCHANGED stores
            ELSE IF \E i \in contacts_with(last'.phone) :
                        contacts[i].verification_code # Some(last'.code)
            THEN /\ last'.status = 400
                 /\ last'.detail = "Invalid verification code"
                 /\ UNCHANGED stores
            ELSE last'.status = 200
    /\ (last'.op \in {"send_verification", "confirm_verification"} /\ last'.status # 200) =>
            UNCHANGED stores

\* C5: send_verification and confirm_verification for a phone without a contact
\* fail with 404, confirm_verification with a code other than the stored one
\* fails with 400, and a failing request leaves every contact, the number of
\* contacts and the SMS log as they were.
C5_FailuresChangeNothing == [][C5_Step]_vars

\* a confirmation with a wrong code was turned down while a code was outstanding
C5_Witness ==
    /\ last.op = "confirm_verification"
    /\ last.status = 400
    /\ last.code \in Codes
    /\ \E i \in contacts_with(last.phone) :
            /\ contacts[i].verification_code \notin {None, Some(last.code)}
            /\ ~contacts[i].phone_verified

\* the request reached the dispatch of the code: the contact was found or created
reached_send ==
    \/ last'.op = "send_verification" /\ contacts_with(last'.phone) # {}
    \/ last'.op = "register" /\ (contacts_with(last'.phone) # {} \/ contacts' # contacts)

C9_Step ==
    reached_send =>
        LET p == last'.phone
            n == Len(contacts)
        IN  /\ last'.status = 200
            /\ issued'[p] # None
            /\ IF contacts_with(p) # {}
               THEN /\ Len(contacts') = n
                    /\ \A i \in 1..n :
                            contacts'[i] =
                                IF contacts[i].phone = p
                                THEN [contacts[i] EXCEPT !.verification_code = issued'[p]]
                                ELSE contacts[i]
               ELSE /\ Len(contacts') = n + 1
                    /\ \A i \in 1..n : contacts'[i] = contacts[i]
                    /\ contacts'[n + 1].phone = p
                    /\ contacts'[n + 1].verification_code = issued'[p]
                    /\ ~contacts'[n + 1].phone_verified
                    /\ contacts'[n + 1].status = "pending"

\* C9: register, on both of its paths, and send_verification answer 200 once
\* they have reached the dispatch of the code, whatever the gateway does (sent,
\* failed or queued), and the contact and its new code are stored the same way
\* in all three cases.
C9_SendFailureAbsorbed == [][C9_Step]_vars

\* a registration answered 200 and stored its contact although the provider
\* turned the message down
C9_Witness ==
    /\ last.op = "register"
    /\ last.status = 200
    /\ last.path = "new"
    /\ smslog[Len(smslog)].status = Some("failed")
    /\ contacts[Len(contacts)].verification_code = issued[last.phone]
    /\ smslog[Len(smslog)].body = Some(sms_body(issued[last.phone][1]))

configured == twilio_client /\ TWILIO_FROM_NUMBER

C8_Step ==
    (last'.op \in {"register", "send_verification"} /\ last'.status = 200) =>
        LET n == Len(smslog)
            r == smslog'[n + 1]
        IN  /\ Len(smslog') = n + 1
            /\ \A i \in 1..n : smslog'[i] = smslog[i]
            /\ r.to = Some(last'.phone)
            /\ r.purpose = Some("verify")
            /\ r.logs = <<>>
            /\ IF ~configured
               THEN /\ r.status = Some("queued")
                    /\ r.provider_message_sid = None
                    /\ provider_seq' = provider_seq
               ELSE IF provider_seq' # provider_seq
               THEN /\ provider_seq' = provider_seq + 1
                    /\ r.status = Some("sent")
                    /\ r.provider_message_sid = Some(provider_sid(provider_seq'))
                    /\ r.error_message = None
               ELSE /\ r.status = Some("failed")
                    /\ r.provider_message_sid = None
                    /\ r.error_message # None
            /\ last'.sms = r.provider_message_sid
            /\ (last'.sms # None) <=> (r.status = Some("sent"))

\* C8: a run of the gateway's send appends exactly one row to the message log
\* and changes no row already there; the row is sent with the provider's id
\* when the provider accepted the message, failed with an error message and no
\* id when the provider raised, queued with no id when no provider is
\* configured; and send returns an id exactly when the row is sent.
C8_OneRowPerSend == [][C8_Step]_vars

\* the provider turned a message down after a callback had changed an earlier row
C8_Witness ==
    /\ last.op \in {"register", "send_verification"}
    /\ last.status = 200
    /\ Len(smslog) = 2
    /\ smslog[1].logs # <<>>
    /\ smslog[1].to # None
    /\ smslog[2].status = Some("failed")
    /\ last.sms = None

has_sid(sid) == \E i \in 1..Len(smslog) : smslog[i].provider_message_sid = sid

C10_Step ==
    last'.op = "sms_status_webhook" =>
        LET n == Len(smslog)
        IN  /\ last'.status = 200
            /\ last'.ok
            /\ last'.sid \in {None, Some("")} => smslog' = smslog
            /\ (last'.sid \notin {None, Some("")} /\ ~has_sid(last'.sid)) =>
                    /\ Len(smslog') = n + 1
                    /\ \A i \in 1..n : smslog'[i] = smslog[i]
                    /\ smslog'[n + 1].provider_message_sid = last'.sid
                    /\ smslog'[n + 1].status = last'.message_status

\* C10: the delivery-status callback always answers {ok: true}; without a
\* MessageSid, or with an empty one, it leaves the message log as it was; with
\* a sid no row carries it appends exactly one row with that sid and the
\* callback's status.
C10_WebhookTolerant == [][C10_Step]_vars

\* a callback for a sid no row carried has added a row after a sent one
C10_Witness ==
    /\ last.op = "sms_status_webhook"
    /\ Len(smslog) = 2
    /\ smslog[1].status = Some("sent")
    /\ smslog[2].provider_message_sid = last.sid
    /\ smslog[2].to = None
    /\ smslog[2].status = last.message_status

rsvps_of(contact_id, event_id) ==
    { i \in 1..Len(rsvps) :
        rsvps[i].contact_id = contact_id /\ rsvps[i].event_id = event_id }

\* C6: with the upserts handled one at a time, the rsvp collection holds
\* exactly one record for each (contact_id, event_id) pair, as sent, that a
\* successful upsert named, and no other record; every upsert of a pair
\* returned the id of that record; and the record's status is the status of
\* the latest upsert of the pair.
C6_OneRsvpPerPair ==
    /\ \A e \in rsvpIds :
            /\ Cardinality(rsvps_of(e.contact_id, e.event_id)) = 1
            /\ \A i \in rsvps_of(e.contact_id, e.event_id) :
                    /\ oid_str(rsvps[i]._id) = e.id
                    /\ rsvps[i].status = e.status
    /\ Len(rsvps) = Cardinality(rsvpIds)
    /\ (last.op = "upsert_rsvp" /\ last.status = 200) =>
            \E i \in rsvps_of(last.contact_id, last.event_id) :
                /\ oid_str(rsvps[i]._id) = last.id
                /\ rsvps[i].status = last.rsvp_status

\* an upsert changed the status of the first of two stored records
C6_Witness ==
    /\ last.op = "upsert_rsvp"
    /\ last.status = 200
    /\ last.path = "update"
    /\ Len(rsvps) = 2
    /\ last.id = oid_str(rsvps[1]._id)
    /\ rsvps[1].status = "not_this_time"
    /\ rsvps[2].status = "yes"

known(coll, text) == \E i \in 1..Len(coll) : coll[i]._id = text.oid

C7_Step ==
    last'.op = "upsert_rsvp" =>
        LET c == last'.contact_id
            e == last'.event_id
        IN  IF c.form = "bad" \/ e.form = "bad"
            THEN /\ last'.status = 400
                 /\ last'.detail = "Invalid IDs"
                 /\ rsvps' = rsvps
            ELSE IF ~known(contacts, c)
            THEN /\ last'.status = 404
                 /\ last'.detail = "Contact not found"
                 /\ rsvps' = rsvps
            ELSE IF ~known(events, e)
            THEN /\ last'.status = 404
                 /\ last'.detail = "Event not found"
                 /\ rsvps' = rsvps
            ELSE last'.status \notin {400, 404}

\* C7: an upsert with a malformed contact_id or event_id fails with 400;
\* otherwise with an unknown contact it fails with 404 "Contact not found",
\* whether the event is known or not; otherwise with an unknown event it fails
\* with 404 "Event not found"; and none of these failures changes the rsvp
\* collection.
C7_BadReferencesRejected == [][C7_Step]_vars

\* an upsert naming an unknown contact and a known event was turned down while a
\* record was stored
C7_Witness ==
    /\ last.op = "upsert_rsvp"
    /\ last.status = 404
    /\ last.detail = "Contact not found"
    /\ known(events, last.event_id)
    /\ Len(rsvps) = 1

rows_with(sid) == { i \in 1..Len(smslog) : smslog[i].provider_message_sid = sid }

statuses_of(logs) == [k \in 1..Len(logs) |-> logs[k].status]

C11_Step ==
    (last'.op = "sms_status_webhook" /\ last'.sid \notin {None, Some("")}
        /\ rows_with(last'.sid) # {}) =>
        /\ Len(smslog') = Len(smslog)
        /\ \A i \in 1..Len(smslog) :
                IF i \in rows_with(last'.sid)
                THEN LET old == smslog[i]
                         new == smslog'[i]
                         n == Len(old.logs)
                     IN  /\ new.status = last'.message_status
                         /\ Len(new.logs) = n + 1
                         /\ SubSeq(new.logs, 1, n) = old.logs
                         /\ new.logs[n + 1].status = last'.message_status
                         /\ new = [old EXCEPT !.status = new.status, !.logs = new.logs]
                ELSE smslog'[i] = smslog[i]

C11_Logs ==
    \A i \in 1..Len(smslog) :
        LET row == smslog[i]
            sid == row.provider_message_sid
        IN  /\ row.logs # <<>> => row.status = row.logs[Len(row.logs)].status
            /\ sid # None =>
                    statuses_of(row.logs) =
                        IF sid[1] \in DOMAIN received THEN received[sid[1]] ELSE <<>>

\* C11: with the sends and the callbacks handled one at a time, a callback whose
\* sid a row carries adds no row, sets that row's status to its own, appends
\* one entry with that status after the row's earlier log entries and changes
\* nothing else of the row nor any other row; so every row's logs holds the
\* statuses of the callbacks received for its sid, in arrival order, and a row
\* with log entries has the status of the last one.
C11_CallbackAppends == []C11_Logs /\ [][C11_Step]_vars

\* a row written by the gateway has taken two callbacks with different statuses
C11_Witness ==
    /\ last.op = "sms_status_webhook"
    /\ \E i \in rows_with(last.sid) :
            /\ smslog[i].to # None
            /\ smslog[i].body # None
            /\ Len(smslog[i].logs) = 2
            /\ smslog[i].logs[1].status # smslog[i].logs[2].status
            /\ smslog[i].status = smslog[i].logs[2].status

\* schemas.Smsmessage.status: Literal["queued", "sent", "delivered", "failed"]
SmsStatuses == {"queued", "sent", "delivered", "failed"}

\* C12: every row of the message log has a status in {queued, sent, delivered,
\* failed}, whatever sends and callbacks (with any MessageStatus, or none)
\* produced it.
C12_SmsStatusInDomain ==
    \A i \in 1..Len(smslog) :
        /\ smslog[i].status # None
        /\ smslog[i].status[1] \in SmsStatuses

\* C13: every stored RSVP record has a status in {yes, not_this_time,
\* no_response}: an upsert with another status stores it neither on the insert
\* path nor on the update path.
C13_RsvpStatusInDomain ==
    \A i \in 1..Len(rsvps) : rsvps[i].status \in RsvpStatuses

C14_Step ==
    /\ Len(contacts') >= Len(contacts)
    /\ \A i \in 1..Len(contacts) :
            \E code \in {None} \cup { Some(c) : c \in Codes }, verified \in BOOLEAN :
                contacts'[i] = [contacts[i] EXCEPT !.verification_code = code,
                                                   !.phone_verified = verified]

\* C14: no register, send_verification or confirm_verification changes the
\* segment, status, brand_queue or phone of a stored contact, or removes it:
\* a step changes at most its verification_code and phone_verified, also when
\* the phone is registered again with another state code or brand_queue.
C14_CreationFieldsFrozen == [][C14_Step]_vars

\* a local contact of the arcane queue was registered again from another state
\* for a queue that does not exist, and is as it was created
C14_Witness ==
    /\ last.op = "register"
    /\ last.status = 200
    /\ last.path = "existing"
    /\ last.state = Some(<<"Z", "Z">>)
    /\ last.brand_queue = Some(<<"v", "i", "p">>)
    /\ \E i \in contacts_with(last.phone) :
            /\ contacts[i].segment = "local"
            /\ contacts[i].brand_queue = Arcane
            /\ contacts[i].status = "pending"
            /\ contacts[i].verification_code = issued[last.phone]

\* the trimmed text starts with "+": a "+" with nothing but blanks before it
plus_first(raw) ==
    \E k \in 1..Len(raw) : raw[k] = "+" /\ \A j \in 1..(k - 1) : raw[j] = " "

\* C15: the normalizer answers for every text, the empty one included, and its
\* answer is "+" and the text's digits, in order, when the trimmed text starts
\* with "+"; "+1" and the digits when it does not and there are exactly 10
\* digits; "+" and the digits otherwise.
C15_NormalizeByCases ==
    last.op = "normalize" =>
        LET raw == last.phone
            IsDigit(c) == c \in {"0", "1", "2", "3", "4", "5", "6", "7", "8", "9"}
            digits == SelectSeq(raw, IsDigit)
        IN  last.result =
                IF plus_first(raw) THEN <<"+">> \o digits
                ELSE IF Len(digits) = 10 THEN <<"+", "1">> \o digits
                ELSE <<"+">> \o digits

\* ten digits after a blank, with a dash among them, were given the prefix "+1"
C15_Witness ==
    /\ last.op = "normalize"
    /\ Len(last.phone) = 12
    /\ last.phone[1] = " "
    /\ last.phone[5] = "-"
    /\ Len(last.result) = 12
    /\ SubSeq(last.result, 1, 3) = <<"+", "1", "1">>
    /\ last.result[12] = "0"

\* C16 as stated: also with register requests interleaved one store operation
\* at a time, the contact collection never holds two contacts with the same
\* phone.
C16_NoDuplicateConcurrent ==
    \A p \in Phones : Cardinality(contacts_with(p)) <= 1

C16_Step ==
    contacts' # contacts /\ Len(contacts') # Len(contacts) =>
        \E w \in Workers :
            LET l == inflight[w]
            IN  /\ l.pc = "insert"
                /\ inflight'[w].pc = "provider"
                /\ contacts' = Append(contacts, contacts'[Len(contacts')])
                /\ contacts'[Len(contacts')].phone = l.phone
                /\ \A i \in contacts_with(l.phone) : i > l.seen

\* C16 as amended: a register request inserts a contact only when its find-one
\* found no contact with its phone: every contact with that phone that is
\* stored when the request inserts was inserted after the request's find-one.
C16_InsertOnlyUnseen == [][C16_Step]_vars

\* two register requests for one new phone both found nothing and both inserted
C16_Witness ==
    /\ Len(contacts) = 2
    /\ contacts[1].phone = contacts[2].phone
    /\ \A w \in Workers : inflight[w].pc \in {"provider", "log"}

\* C17 as stated: also with the upserts interleaved one store operation at a
\* time, the rsvp collection holds at most one record for each (contact_id,
\* event_id) pair.
C17_OneRsvpPerPairConcurrent ==
    \A i, j \in 1..Len(rsvps) :
        (rsvps[i].contact_id = rsvps[j].contact_id /\ rsvps[i].event_id = rsvps[j].event_id)
            => i = j

C17_Step ==
    rsvps' # rsvps =>
        \E w \in Workers :
            LET l == inflight[w]
                n == Len(rsvps)
            IN  /\ inflight'[w] = Idle
                /\ IF Len(rsvps') = n
                   THEN /\ l.pc = "rsvp_update"
                        /\ \E i \in rsvps_of(l.contact_id, l.event_id) :
                                rsvps' = [rsvps EXCEPT ![i].status = l.rsvp_status]
                   ELSE /\ l.pc = "rsvp_insert"
                        /\ rsvps' = Append(rsvps, rsvps'[n + 1])
                        /\ rsvps'[n + 1].contact_id = l.contact_id
                        /\ rsvps'[n + 1].event_id = l.event_id
                        /\ rsvps'[n + 1].status = l.rsvp_status
                        /\ \A i \in rsvps_of(l.contact_id, l.event_id) : i > l.seen

\* C17 as amended: an upsert whose find-one found a record of its pair only
\* overwrites the status of a record of that pair (the last writer wins), and
\* an upsert inserts a record only when its find-one found none for its pair:
\* every record of the pair that is stored when it inserts was inserted after
\* its find-one.
C17_InsertOnlyUnseenPair == [][C17_Step]_vars

\* two upserts of one pair both found no record and both inserted
C17_Witness ==
    /\ Len(rsvps) = 2
    /\ rsvps[1].contact_id = rsvps[2].contact_id
    /\ rsvps[1].event_id = rsvps[2].event_id
    /\ rsvps[1].status # rsvps[2].status
    /\ last.op = "upsert_rsvp"
    /\ last.path = "insert"

quiet == \A w \in Workers : inflight[w] = Idle

verify_rows_to(phone) ==
    { r \in 1..Len(smslog) :
        smslog[r].to = Some(phone) /\ smslog[r].purpose = Some("verify") }

latest(rows) == CHOOSE r \in rows : \A q \in rows : q <= r

\* C18 as stated: whenever no request is in flight, a stored verification_code
\* is the code carried by the most recently logged verify row addressed to the
\* contact's phone, also after interleaved register / send_verification
\* requests for the phone.
C18_StoredCodeIsLatestSent ==
    quiet =>
        \A i \in 1..Len(contacts) :
            contacts[i].verification_code # None =>
                /\ verify_rows_to(contacts[i].phone) # {}
                /\ smslog[latest(verify_rows_to(contacts[i].phone))].body =
                        Some(sms_body(contacts[i].verification_code[1]))

\* C18 as amended: whenever no request is in flight, a stored verification_code
\* is the code carried by one of the logged verify rows addressed to the
\* contact's phone.
C18_StoredCodeWasSent ==
    quiet =>
        \A i \in 1..Len(contacts) :
            contacts[i].verification_code # None =>
                \E r \in verify_rows_to(contacts[i].phone) :
                    smslog[r].body = Some(sms_body(contacts[i].verification_code[1]))

\* with no request in flight, the only contact holds the code of a request
\* whose row was logged before the row of another request for its phone
C18_Witness ==
    /\ quiet
    /\ Len(contacts) = 1
    /\ ~contacts[1].phone_verified
    /\ contacts[1].verification_code # None
    /\ verify_rows_to(contacts[1].phone) = {1, 2}
    /\ smslog[1].body = Some(sms_body(contacts[1].verification_code[1]))
    /\ smslog[2].body # smslog[1].body

\* C19: the message log holds at most one row for each provider_message_sid
\* that is not None, also when a callback for a sid is handled after the
\* provider accepted the message and before the gateway logged its row.
C19_OneRowPerSid ==
    \A i, j \in 1..Len(smslog) :
        (smslog[i].provider_message_sid # None
            /\ smslog[i].provider_message_sid = smslog[j].provider_message_sid) => i = j

====
